---- MODULE Spec2Model ----
(***************************************************************************)
(* Model of the attendance / GPS HTTP service with its SSE broker.         *)
(*                                                                         *)
(* Request goroutines run updateHandler or gpsHandler; they write the two  *)
(* maps under their mutexes and then call broadcast, which sends on the    *)
(* buffered channel broker.Notifier.  The broker goroutine (listen) is the *)
(* only reader of Notifier, newClients and closingClients and the only     *)
(* writer of broker.clients.  Every /events connection runs ServeHTTP,     *)
(* which owns one unbuffered channel messageChan.                          *)
(***************************************************************************)
EXTENDS Integers, Sequences, FiniteSets, TLC

(* ------------------------------ bounds --------------------------------- *)

\* request goroutines that can be in flight at the same time
NumHandlers == 2

\* requests served in one behaviour
MaxRequests == 3

\* /events connections opened in one behaviour
NumSubscribers == 2

\* request goroutines in flight at the same time while /events connections are open
NumPublishers == 1

Handlers == 1..NumHandlers

Subscribers == 1..NumSubscribers

Publishers == 1..NumPublishers

\* no goroutine / no value
None == 0

(* ------------------------------ inputs --------------------------------- *)

\* id query parameter: absent/empty, or a device id
Ids == {"", "dev-1", "dev-2"}

\* value query parameter of /update
BoolInputs == {"", "true", "0", "yes"}

\* lat and lon query parameters of /gps, as character sequences
FloatInputs == { <<>>, <<"a", "b", "c">>, <<"1", ".", "5">>, <<"-", "2">> }

\* the request sent while /events connections are open
PubIds == {"dev-1"}

PubBools == {"true"}

(* --------------------------- pure functions ---------------------------- *)

\* strconv.ParseBool: the accepted literals, anything else is an error
ParseBool(str) ==
    IF str \in {"1", "t", "T", "TRUE", "true", "True"}
        THEN [err |-> FALSE, v |-> TRUE]
    ELSE IF str \in {"0", "f", "F", "FALSE", "false", "False"}
        THEN [err |-> FALSE, v |-> FALSE]
    ELSE [err |-> TRUE, v |-> FALSE]

Digits == {"0", "1", "2", "3", "4", "5", "6", "7", "8", "9"}

DigitVal(c) ==
    CASE c = "0" -> 0 [] c = "1" -> 1 [] c = "2" -> 2 [] c = "3" -> 3
      [] c = "4" -> 4 [] c = "5" -> 5 [] c = "6" -> 6 [] c = "7" -> 7
      [] c = "8" -> 8 [] c = "9" -> 9

\* decimal places kept by the value representation (the %.6f of the replies)
FracDigits == 6

RECURSIVE Pow10(_)
Pow10(n) == IF n = 0 THEN 1 ELSE 10 * Pow10(n - 1)

RECURSIVE DigitsValue(_)
\* value of a sequence of digits
DigitsValue(s) ==
    IF s = <<>> THEN 0
    ELSE 10 * DigitsValue(SubSeq(s, 1, Len(s) - 1)) + DigitVal(s[Len(s)])

\* position of the decimal point in s, 0 when there is none
DotPos(s) ==
    IF \E i \in 1..Len(s) : s[i] = "."
        THEN CHOOSE i \in 1..Len(s) : s[i] = "." /\ \A j \in 1..(i - 1) : s[j] # "."
    ELSE 0

\* strconv.ParseFloat(s, 64) on plain decimal literals [+-]digits[.digits]
\* with at most FracDigits decimals; the value is held in units of
\* 10^-FracDigits, which is exact for these literals.
ParseFloat(s) ==
    LET signed == s # <<>> /\ s[1] \in {"+", "-"}
        body   == IF signed THEN SubSeq(s, 2, Len(s)) ELSE s
        dot    == DotPos(body)
        int    == IF dot = 0 THEN body ELSE SubSeq(body, 1, dot - 1)
        frac   == IF dot = 0 THEN <<>> ELSE SubSeq(body, dot + 1, Len(body))
        wellFormed ==
            /\ Len(int) + Len(frac) > 0
            /\ \A i \in 1..Len(int) : int[i] \in Digits
            /\ \A i \in 1..Len(frac) : frac[i] \in Digits
            /\ Len(frac) <= FracDigits
        mag    == DigitsValue(int) * Pow10(FracDigits)
                    + DigitsValue(frac) * Pow10(FracDigits - Len(frac))
    IN  IF wellFormed
            THEN [err |-> FALSE, v |-> IF signed /\ s[1] = "-" THEN 0 - mag ELSE mag]
        ELSE [err |-> TRUE, v |-> 0]

(* ------------------------------- state --------------------------------- *)

VARIABLES
    devices,        \* map[string]bool, the attendance map
    mutex,          \* holder of the attendance mutex, None when free
    gpsLocations,   \* map[string]GPSLocation
    gpsMutex,       \* holder of the GPS mutex, None when free
    hpc,            \* position of each request goroutine
    hreq,           \* its query parameters
    hval,           \* its locals parsed, lat, lon
    hresp,          \* the response it wrote
    hseq,           \* the number of the request it serves
    nreq,           \* requests accepted so far
    Notifier,       \* buffer of broker.Notifier
    NotifierSendq,  \* goroutines blocked sending on broker.Notifier, in order
    newClients,     \* subscribers blocked sending on broker.newClients, in order
    closingClients, \* subscribers blocked sending on broker.closingClients
    clients,        \* broker.clients, the listener set
    bpc,            \* position of the broker loop
    bevent,         \* the event the loop is fanning out
    btodo,          \* clients the range loop has still to visit
    spc,            \* position of each ServeHTTP goroutine
    cancelled,      \* whether its request context is done
    published,      \* the events accepted by Notifier so far, in order
    received,       \* observed: the events a subscriber took from its
                    \*           messageChan, in order
    regStart,       \* observed: broadcast calls that had returned when a
                    \*           subscriber began its send on newClients
    regDone,        \* observed: broadcast calls that had begun when the loop
                    \*           processed its registration
    dropped,        \* observed: the events the loop dropped for a subscriber
    lastLock        \* observed: per id, the number and the value of the request
                    \*           that last acquired the attendance mutex

store == <<devices, mutex, gpsLocations, gpsMutex>>

handlerVars == <<hpc, hreq, hval, hresp, hseq, nreq>>

chanVars == <<Notifier, NotifierSendq, newClients, closingClients>>

brokerVars == <<clients, bpc, bevent, btodo>>

subVars == <<spc, cancelled>>

\* what an observer of the broker records; the program holds none of it
obs == <<received, regStart, regDone, dropped>>

vars == <<store, handlerVars, chanVars, brokerVars, subVars, published, obs, lastLock>>

\* a Notifier that buffers two events
NotifierCapTwo == 1 + 1

\* capacity of broker.Notifier
NotifierCap == 1

NoReq == [kind |-> "none", id |-> "", value |-> "", lat |-> <<>>, lon |-> <<>>]

NoVal == [parsed |-> FALSE, lat |-> 0, lon |-> 0]

NoResp == [status |-> 0, body |-> <<>>]

NoEvent == [type |-> "", message |-> <<>>, seq |-> 0]

EmptyMap == [k \in {} |-> 0]

\* m[k] = v of a Go map
MapSet(m, k, v) == [x \in (DOMAIN m) \cup {k} |-> IF x = k THEN v ELSE m[x]]

\* http.Error(w, msg, http.StatusBadRequest)
HttpError(msg) == [status |-> 400, body |-> <<msg>>]

\* NewBroker, and the package variables
Init ==
    /\ devices = EmptyMap
    /\ mutex = None
    /\ gpsLocations = EmptyMap
    /\ gpsMutex = None
    /\ hpc = [h \in Handlers |-> "idle"]
    /\ hreq = [h \in Handlers |-> NoReq]
    /\ hval = [h \in Handlers |-> NoVal]
    /\ hresp = [h \in Handlers |-> NoResp]
    /\ hseq = [h \in Handlers |-> 0]
    /\ nreq = 0
    /\ Notifier = <<>>
    /\ NotifierSendq = <<>>
    /\ newClients = <<>>
    /\ closingClients = <<>>
    /\ clients = {}
    /\ bpc = "select"
    /\ bevent = NoEvent
    /\ btodo = {}
    /\ spc = [s \in Subscribers |-> "idle"]
    /\ cancelled = [s \in Subscribers |-> FALSE]
    /\ received = [s \in Subscribers |-> <<>>]
    /\ published = <<>>
    /\ regStart = [s \in Subscribers |-> 0]
    /\ regDone = [s \in Subscribers |-> 0]
    /\ dropped = [s \in Subscribers |-> {}]
    /\ lastLock = EmptyMap

(* --------------------------- request handlers -------------------------- *)

\* the checks of updateHandler before it touches the map: "" when it passes
updateReject(id, val) ==
    IF id = "" THEN "Missing id param"
    ELSE IF val = "" THEN "Missing value param"
    ELSE IF ParseBool(val).err THEN "Invalid boolean value"
    ELSE ""

\* gpsHandler parsing lat before it looks at id
gpsRejectLatFirst(id, latStr, lonStr) ==
    IF ParseFloat(latStr).err THEN "Invalid lat param"
    ELSE IF id = "" THEN "Missing id param"
    ELSE IF ParseFloat(lonStr).err THEN "Invalid lon param"
    ELSE ""

\* gpsHandler parsing lon before lat
gpsRejectLonFirst(id, latStr, lonStr) ==
    IF id = "" THEN "Missing id param"
    ELSE IF ParseFloat(lonStr).err THEN "Invalid lon param"
    ELSE IF ParseFloat(latStr).err THEN "Invalid lat param"
    ELSE ""

\* the checks of gpsHandler before it touches the map: "" when it passes
gpsReject(id, latStr, lonStr) ==
    IF id = "" THEN "Missing id param"
    ELSE IF ParseFloat(latStr).err THEN "Invalid lat param"
    ELSE IF ParseFloat(lonStr).err THEN "Invalid lon param"
    ELSE ""

\* a handler that answers 400 and forgets to return
BeginNoReturn(h, r, reject, val, next) ==
    /\ hpc[h] = "idle"
    /\ nreq < MaxRequests
    /\ nreq' = nreq + 1
    /\ hseq' = [hseq EXCEPT ![h] = nreq + 1]
    /\ hreq' = [hreq EXCEPT ![h] = r]
    /\ hresp' = IF reject # "" THEN [hresp EXCEPT ![h] = HttpError(reject)] ELSE hresp
    /\ hval' = [hval EXCEPT ![h] = val]
    /\ hpc' = [hpc EXCEPT ![h] = next]
    /\ UNCHANGED <<store, chanVars, brokerVars, subVars, published>>

\* a request goroutine starts: the handler reads its query and validates it
Begin(h, r, reject, val, next) ==
    /\ hpc[h] = "idle"
    /\ nreq < MaxRequests
    /\ nreq' = nreq + 1
    /\ hseq' = [hseq EXCEPT ![h] = nreq + 1]
    /\ hreq' = [hreq EXCEPT ![h] = r]
    /\ IF reject # ""
          THEN /\ hresp' = [hresp EXCEPT ![h] = HttpError(reject)]
               /\ hpc' = [hpc EXCEPT ![h] = "done"]
               /\ hval' = hval
          ELSE /\ hval' = [hval EXCEPT ![h] = val]
               /\ hpc' = [hpc EXCEPT ![h] = next]
               /\ hresp' = hresp
    /\ UNCHANGED <<store, chanVars, brokerVars, subVars, published>>

\* updateHandler up to mutex.Lock()
updateHandlerBegin(h, ids, vals) ==
    \E id \in ids, val \in vals :
        Begin(h, [NoReq EXCEPT !.kind = "update", !.id = id, !.value = val],
              updateReject(id, val),
              [NoVal EXCEPT !.parsed = ParseBool(val).v],
              "update_lock")

\* gpsHandler up to gpsMutex.Lock()
gpsHandlerBegin(h, ids, coords) ==
    \E id \in ids, latStr \in coords, lonStr \in coords :
        Begin(h, [NoReq EXCEPT !.kind = "gps", !.id = id, !.lat = latStr, !.lon = lonStr],
              gpsReject(id, latStr, lonStr),
              [NoVal EXCEPT !.lat = ParseFloat(latStr).v, !.lon = ParseFloat(lonStr).v],
              "gps_lock")

\* updateHandler entering its critical section without waiting for the mutex
updateLockNoWait(h) ==
    /\ hpc[h] = "update_lock"
    /\ mutex' = h
    /\ hpc' = [hpc EXCEPT ![h] = "update_write"]
    /\ UNCHANGED <<devices, gpsLocations, gpsMutex, hreq, hval, hresp, hseq, nreq,
                   chanVars, brokerVars, subVars, published>>

\* mutex.Lock()
updateLock(h) ==
    /\ hpc[h] = "update_lock"
    /\ mutex = None
    /\ mutex' = h
    /\ hpc' = [hpc EXCEPT ![h] = "update_write"]
    /\ UNCHANGED <<devices, gpsLocations, gpsMutex, hreq, hval, hresp, hseq, nreq,
                   chanVars, brokerVars, subVars, published>>

\* devices[id] = parsed
updateWrite(h) ==
    /\ hpc[h] = "update_write"
    /\ devices' = MapSet(devices, hreq[h].id, hval[h].parsed)
    /\ hpc' = [hpc EXCEPT ![h] = "update_unlock"]
    /\ UNCHANGED <<mutex, gpsLocations, gpsMutex, hreq, hval, hresp, hseq, nreq,
                   chanVars, brokerVars, subVars, published>>

\* updateHandler without its call to broadcast
updateUnlockNoBroadcast(h) ==
    /\ hpc[h] = "update_unlock"
    /\ mutex' = None
    /\ hpc' = [hpc EXCEPT ![h] = "respond"]
    /\ UNCHANGED <<devices, gpsLocations, gpsMutex, hreq, hval, hresp, hseq, nreq,
                   chanVars, brokerVars, subVars, published>>

\* updateHandler keeping the mutex while it logs and publishes
updateUnlockLate(h) ==
    /\ hpc[h] = "update_unlock"
    /\ hpc' = [hpc EXCEPT ![h] = "broadcast"]
    /\ UNCHANGED <<store, hreq, hval, hresp, hseq, nreq,
                   chanVars, brokerVars, subVars, published>>

\* mutex.Unlock(), then the log line
updateUnlock(h) ==
    /\ hpc[h] = "update_unlock"
    /\ mutex' = None
    /\ hpc' = [hpc EXCEPT ![h] = "broadcast"]
    /\ UNCHANGED <<devices, gpsLocations, gpsMutex, hreq, hval, hresp, hseq, nreq,
                   chanVars, brokerVars, subVars, published>>

\* gpsHandler guarding its map with the attendance mutex
gpsLockShared(h) ==
    /\ hpc[h] = "gps_lock"
    /\ mutex = None
    /\ mutex' = h
    /\ hpc' = [hpc EXCEPT ![h] = "gps_write"]
    /\ UNCHANGED <<devices, gpsMutex, gpsLocations, hreq, hval, hresp, hseq, nreq,
                   chanVars, brokerVars, subVars, published>>

\* gpsMutex.Lock()
gpsLock(h) ==
    /\ hpc[h] = "gps_lock"
    /\ gpsMutex = None
    /\ gpsMutex' = h
    /\ hpc' = [hpc EXCEPT ![h] = "gps_write"]
    /\ UNCHANGED <<devices, mutex, gpsLocations, hreq, hval, hresp, hseq, nreq,
                   chanVars, brokerVars, subVars, published>>

\* gpsHandler storing lon as Lat and lat as Lon
gpsWriteSwapped(h) ==
    /\ hpc[h] = "gps_write"
    /\ gpsLocations' = MapSet(gpsLocations, hreq[h].id,
                              [ID |-> hreq[h].id, Lat |-> hval[h].lon, Lon |-> hval[h].lat])
    /\ hpc' = [hpc EXCEPT ![h] = "gps_unlock"]
    /\ UNCHANGED <<devices, mutex, gpsMutex, hreq, hval, hresp, hseq, nreq,
                   chanVars, brokerVars, subVars, published>>

\* gpsLocations[id] = GPSLocation{ID: id, Lat: lat, Lon: lon}
gpsWrite(h) ==
    /\ hpc[h] = "gps_write"
    /\ gpsLocations' = MapSet(gpsLocations, hreq[h].id,
                              [ID |-> hreq[h].id, Lat |-> hval[h].lat, Lon |-> hval[h].lon])
    /\ hpc' = [hpc EXCEPT ![h] = "gps_unlock"]
    /\ UNCHANGED <<devices, mutex, gpsMutex, hreq, hval, hresp, hseq, nreq,
                   chanVars, brokerVars, subVars, published>>

\* gpsMutex.Unlock(), then the log line
gpsUnlock(h) ==
    /\ hpc[h] = "gps_unlock"
    /\ gpsMutex' = None
    /\ hpc' = [hpc EXCEPT ![h] = "broadcast"]
    /\ UNCHANGED <<devices, mutex, gpsLocations, hreq, hval, hresp, hseq, nreq,
                   chanVars, brokerVars, subVars, published>>

\* logMsg of the handler
LogMsg(r, v) ==
    IF r.kind = "update"
        THEN IF v.parsed THEN <<"Attendance registered for", r.id>>
                         ELSE <<"Attendance unregistered for", r.id>>
    ELSE <<"Location update received for", r.id, v.lat, v.lon>>

\* an event built from the map's entry at the time of the send, not from the
\* request's own value
EventOfStore(h) ==
    [type    |-> IF hreq[h].kind = "update" THEN "update" ELSE "gps",
     message |-> IF hreq[h].kind = "update"
                    THEN LogMsg(hreq[h], [NoVal EXCEPT !.parsed = devices[hreq[h].id]])
                    ELSE LogMsg(hreq[h], hval[h]),
     seq     |-> hseq[h]]

\* the SSEMessage the handler builds; seq tells apart the copies of equal messages
EventOf(h) ==
    [type    |-> IF hreq[h].kind = "update" THEN "update" ELSE "gps",
     message |-> LogMsg(hreq[h], hval[h]),
     seq     |-> hseq[h]]

\* broadcast: broker.Notifier <- jsonMsg.  With room in the buffer the send
\* completes at once; otherwise the goroutine parks at the end of the send queue.
broadcast(h) ==
    /\ hpc[h] = "broadcast"
    /\ IF Len(Notifier) < NotifierCap
          THEN /\ Notifier' = Append(Notifier, EventOf(h))
               /\ published' = Append(published, EventOf(h))
               /\ hpc' = [hpc EXCEPT ![h] = "respond"]
               /\ NotifierSendq' = NotifierSendq
          ELSE /\ NotifierSendq' = Append(NotifierSendq, [h |-> h, ev |-> EventOf(h)])
               /\ hpc' = [hpc EXCEPT ![h] = "blocked"]
               /\ UNCHANGED <<Notifier, published>>
    /\ UNCHANGED <<store, hreq, hval, hresp, hseq, nreq, newClients, closingClients,
                   brokerVars, subVars>>

\* the reply of a successful request
Reply(r, v) ==
    IF r.kind = "update"
        THEN [status |-> 200, body |-> <<"Device", r.id, "set to", v.parsed>>]
    ELSE [status |-> 200, body |-> <<"GPS updated for", r.id, v.lat, v.lon>>]

\* fmt.Fprintf(w, ...) after broadcast returned
respond(h) ==
    /\ hpc[h] = "respond"
    /\ hresp' = [hresp EXCEPT ![h] = Reply(hreq[h], hval[h])]
    /\ hpc' = [hpc EXCEPT ![h] = "done"]
    /\ UNCHANGED <<store, hreq, hval, hseq, nreq, chanVars, brokerVars, subVars, published>>

\* the handler returned; the goroutine ends and another request can be served
finish(h) ==
    /\ hpc[h] = "done"
    /\ hpc' = [hpc EXCEPT ![h] = "idle"]
    /\ hreq' = [hreq EXCEPT ![h] = NoReq]
    /\ hval' = [hval EXCEPT ![h] = NoVal]
    /\ hresp' = [hresp EXCEPT ![h] = NoResp]
    /\ hseq' = [hseq EXCEPT ![h] = 0]
    /\ UNCHANGED <<store, nreq, chanVars, brokerVars, subVars, published>>

(* ------------------------------ the broker ----------------------------- *)

\* a loop that takes the registration and does not record the channel
listenNewClientForget ==
    /\ bpc = "select"
    /\ newClients # <<>>
    /\ spc' = [spc EXCEPT ![Head(newClients)] = "running"]
    /\ newClients' = Tail(newClients)
    /\ UNCHANGED <<store, handlerVars, Notifier, NotifierSendq, closingClients,
                   brokerVars, cancelled, published>>

\* listen, case s := <-broker.newClients: the first blocked sender is served
listenNewClient ==
    /\ bpc = "select"
    /\ newClients # <<>>
    /\ LET s == Head(newClients) IN
        /\ clients' = clients \cup {s}
        /\ spc' = [spc EXCEPT ![s] = "running"]
    /\ newClients' = Tail(newClients)
    /\ UNCHANGED <<store, handlerVars, Notifier, NotifierSendq, closingClients,
                   bpc, bevent, btodo, cancelled, published>>

\* a loop that takes the deregistration and keeps the channel
listenClosingClientKeep ==
    /\ bpc = "select"
    /\ closingClients # <<>>
    /\ spc' = [spc EXCEPT ![Head(closingClients)] = "done"]
    /\ closingClients' = Tail(closingClients)
    /\ UNCHANGED <<store, handlerVars, Notifier, NotifierSendq, newClients,
                   brokerVars, cancelled, published>>

\* listen, case s := <-broker.closingClients; the deferred send returns and
\* ServeHTTP ends
listenClosingClient ==
    /\ bpc = "select"
    /\ closingClients # <<>>
    /\ LET s == Head(closingClients) IN
        /\ clients' = clients \ {s}
        /\ spc' = [spc EXCEPT ![s] = "done"]
    /\ closingClients' = Tail(closingClients)
    /\ UNCHANGED <<store, handlerVars, Notifier, NotifierSendq, newClients,
                   bpc, bevent, btodo, cancelled, published>>

\* listen, case event := <-broker.Notifier.  Taking the buffered event makes
\* room: the first parked sender's event enters the buffer and its send returns.
listenNotifier ==
    /\ bpc = "select"
    /\ Notifier # <<>>
    /\ bevent' = Head(Notifier)
    /\ btodo' = clients
    /\ bpc' = IF clients = {} THEN "select" ELSE "fanout"
    /\ IF NotifierSendq # <<>>
          THEN /\ Notifier' = Append(Tail(Notifier), Head(NotifierSendq).ev)
               /\ published' = Append(published, Head(NotifierSendq).ev)
               /\ hpc' = [hpc EXCEPT ![Head(NotifierSendq).h] = "respond"]
               /\ NotifierSendq' = Tail(NotifierSendq)
          ELSE /\ Notifier' = Tail(Notifier)
               /\ UNCHANGED <<published, hpc, NotifierSendq>>
    /\ UNCHANGED <<store, hreq, hval, hresp, hseq, nreq, newClients, closingClients,
                   clients, subVars>>

\* whether a send on c's messageChan finds its receiver parked in the select
Ready(c) == spc[c] = "select"

\* listenSend without its default case: the loop waits for the receiver
listenSendBlocking(c) ==
    /\ bpc = "fanout"
    /\ c \in btodo
    /\ Ready(c)
    /\ btodo' = btodo \ {c}
    /\ bpc' = IF btodo' = {} THEN "select" ELSE "fanout"
    /\ spc' = [spc EXCEPT ![c] = "running"]
    /\ UNCHANGED <<store, handlerVars, chanVars, clients, bevent, cancelled, published>>

\* listenSend leaving the range loop at the first client that is not ready
listenSendBreak(c) ==
    /\ bpc = "fanout"
    /\ c \in btodo
    /\ btodo' = IF Ready(c) THEN btodo \ {c} ELSE {}
    /\ bpc' = IF btodo' = {} THEN "select" ELSE "fanout"
    /\ IF Ready(c)
          THEN spc' = [spc EXCEPT ![c] = "running"]
          ELSE spc' = spc
    /\ UNCHANGED <<store, handlerVars, chanVars, clients, bevent, cancelled, published>>

\* listenSend offering the event again to a client that took it
listenSendAgain(c) ==
    /\ bpc = "fanout"
    /\ c \in btodo
    /\ btodo' = IF Ready(c) THEN btodo ELSE btodo \ {c}
    /\ bpc' = IF btodo' = {} THEN "select" ELSE "fanout"
    /\ IF Ready(c)
          THEN spc' = [spc EXCEPT ![c] = "running"]
          ELSE spc' = spc
    /\ UNCHANGED <<store, handlerVars, chanVars, clients, bevent, cancelled, published>>

\* one iteration of the range loop: select { case clientMessageChan <- event: default: }
listenSend(c) ==
    /\ bpc = "fanout"
    /\ c \in btodo
    /\ btodo' = btodo \ {c}
    /\ bpc' = IF btodo' = {} THEN "select" ELSE "fanout"
    /\ IF Ready(c)
          THEN spc' = [spc EXCEPT ![c] = "running"]
          ELSE spc' = spc
    /\ UNCHANGED <<store, handlerVars, chanVars, clients, bevent, cancelled, published>>

(* ----------------------------- subscribers ----------------------------- *)

\* ServeHTTP: messageChan := make(chan []byte); broker.newClients <- messageChan
ServeHTTPSubscribe(s) ==
    /\ spc[s] = "idle"
    /\ spc' = [spc EXCEPT ![s] = "registering"]
    /\ newClients' = Append(newClients, s)
    /\ UNCHANGED <<store, handlerVars, Notifier, NotifierSendq, closingClients,
                   brokerVars, cancelled, published>>

\* ServeHTTP reaches its select (after the registration, or after writing a
\* message to the response): it parks, or leaves at once when notify is closed
ServeHTTPSelect(s) ==
    /\ spc[s] = "running"
    /\ spc' = [spc EXCEPT ![s] = IF cancelled[s] THEN "notified" ELSE "select"]
    /\ UNCHANGED <<store, handlerVars, chanVars, brokerVars, cancelled, published>>

\* the client goes away: r.Context().Done() is closed, which wakes a parked select
Disconnect(s) ==
    /\ spc[s] \in {"registering", "running", "select"}
    /\ ~cancelled[s]
    /\ cancelled' = [cancelled EXCEPT ![s] = TRUE]
    /\ spc' = [spc EXCEPT ![s] = IF @ = "select" THEN "notified" ELSE @]
    /\ UNCHANGED <<store, handlerVars, chanVars, brokerVars, published>>

\* a ServeHTTP that returns without its deferred deregistration
ServeHTTPCloseNoDefer(s) ==
    /\ spc[s] = "notified"
    /\ spc' = [spc EXCEPT ![s] = "done"]
    /\ UNCHANGED <<store, handlerVars, chanVars, brokerVars, cancelled, published>>

\* case <-notify: return, and the deferred broker.closingClients <- messageChan
ServeHTTPClose(s) ==
    /\ spc[s] = "notified"
    /\ spc' = [spc EXCEPT ![s] = "closing"]
    /\ closingClients' = Append(closingClients, s)
    /\ UNCHANGED <<store, handlerVars, Notifier, NotifierSendq, newClients,
                   brokerVars, cancelled, published>>

(* ---------------------------- specification ---------------------------- *)

\* a step nobody observes
Unobserved == UNCHANGED <<obs, lastLock>>

\* the observer's note when a request acquires the attendance mutex
ObserveLock ==
    /\ lastLock' = IF mutex' # mutex /\ mutex' # None
                      THEN MapSet(lastLock, hreq[mutex'].id,
                                  [seq |-> hseq[mutex'], v |-> hval[mutex'].parsed])
                      ELSE lastLock
    /\ UNCHANGED obs

\* The service with no /events connection: concurrent /update and /gps
\* requests with every input, and the broker loop draining Notifier.
Next ==
    \/ \E h \in Handlers : updateHandlerBegin(h, Ids, BoolInputs) /\ ObserveLock
    \/ \E h \in Handlers : gpsHandlerBegin(h, Ids, FloatInputs) /\ ObserveLock
    \/ \E h \in Handlers : updateLock(h) /\ ObserveLock
    \/ \E h \in Handlers : updateWrite(h) /\ ObserveLock
    \/ \E h \in Handlers : updateUnlock(h) /\ ObserveLock
    \/ \E h \in Handlers : gpsLock(h) /\ ObserveLock
    \/ \E h \in Handlers : gpsWrite(h) /\ ObserveLock
    \/ \E h \in Handlers : gpsUnlock(h) /\ ObserveLock
    \/ \E h \in Handlers : broadcast(h) /\ ObserveLock
    \/ \E h \in Handlers : respond(h) /\ ObserveLock
    \/ \E h \in Handlers : finish(h) /\ ObserveLock
    \/ listenNotifier /\ ObserveLock

Spec == Init /\ [][Next]_vars

\* the observer's notes on a step of the broker or of a subscriber
Observe ==
    /\ received' = [s \in Subscribers |->
            IF spc[s] = "select" /\ spc'[s] = "running"
                THEN Append(received[s], bevent) ELSE received[s]]
    /\ regStart' = [s \in Subscribers |->
            IF spc[s] = "idle" /\ spc'[s] = "registering"
                THEN Len(published) ELSE regStart[s]]
    /\ regDone' = [s \in Subscribers |->
            IF s \in clients' \ clients
                THEN Len(published) + Len(NotifierSendq) ELSE regDone[s]]
    /\ dropped' = [s \in Subscribers |->
            IF s \in btodo \ btodo' /\ ~Ready(s)
                THEN dropped[s] \cup {bevent.seq} ELSE dropped[s]]
    /\ lastLock' = lastLock

\* The broker with /events connections, observed: subscribers come and go
\* while accepted /update requests publish.
NextEvents ==
    \/ \E h \in Publishers : updateHandlerBegin(h, PubIds, PubBools) /\ Observe
    \/ \E h \in Publishers : updateLock(h) /\ Observe
    \/ \E h \in Publishers : updateWrite(h) /\ Observe
    \/ \E h \in Publishers : updateUnlock(h) /\ Observe
    \/ \E h \in Publishers : broadcast(h) /\ Observe
    \/ \E h \in Publishers : respond(h) /\ Observe
    \/ \E h \in Publishers : finish(h) /\ Observe
    \/ listenNewClient /\ Observe
    \/ listenClosingClient /\ Observe
    \/ listenNotifier /\ Observe
    \/ \E c \in Subscribers : listenSend(c) /\ Observe
    \/ \E s \in Subscribers : ServeHTTPSubscribe(s) /\ Observe
    \/ \E s \in Subscribers : ServeHTTPSelect(s) /\ Observe
    \/ \E s \in Subscribers : Disconnect(s) /\ Observe
    \/ \E s \in Subscribers : ServeHTTPClose(s) /\ Observe

SpecEvents == Init /\ [][NextEvents]_vars

\* The same system unobserved, with concurrent publishers.
NextLive ==
    \/ \E h \in Handlers : updateHandlerBegin(h, PubIds, PubBools) /\ Unobserved
    \/ \E h \in Handlers : updateLock(h) /\ Unobserved
    \/ \E h \in Handlers : updateWrite(h) /\ Unobserved
    \/ \E h \in Handlers : updateUnlock(h) /\ Unobserved
    \/ \E h \in Handlers : broadcast(h) /\ Unobserved
    \/ \E h \in Handlers : respond(h) /\ Unobserved
    \/ \E h \in Handlers : finish(h) /\ Unobserved
    \/ listenNewClient /\ Unobserved
    \/ listenClosingClient /\ Unobserved
    \/ listenNotifier /\ Unobserved
    \/ \E c \in Subscribers : listenSend(c) /\ Unobserved
    \/ \E s \in Subscribers : ServeHTTPSubscribe(s) /\ Unobserved
    \/ \E s \in Subscribers : ServeHTTPSelect(s) /\ Unobserved
    \/ \E s \in Subscribers : Disconnect(s) /\ Unobserved
    \/ \E s \in Subscribers : ServeHTTPClose(s) /\ Unobserved

\* Scheduling: a select never ignores a ready case forever and the loop's
\* non-blocking sends always complete; a runnable request goroutine runs.
\* Nothing is assumed of the subscribers, which may stall at any point.
Fairness ==
    /\ WF_vars(listenNewClient /\ Unobserved)
    /\ WF_vars(listenClosingClient /\ Unobserved)
    /\ WF_vars(listenNotifier /\ Unobserved)
    /\ WF_vars(\E c \in Subscribers : listenSend(c) /\ Unobserved)
    /\ \A h \in Handlers : WF_vars(broadcast(h) /\ Unobserved)

LiveEvents == Init /\ [][NextLive]_vars /\ Fairness

\* Scheduling of a ServeHTTP goroutine whose request context is done: its
\* write to the closed connection returns, so it runs on to its select, takes
\* the notify case and starts the deferred send.
CloseFairness ==
    \A s \in Subscribers :
        /\ WF_vars(cancelled[s] /\ ServeHTTPSelect(s) /\ Unobserved)
        /\ WF_vars(ServeHTTPClose(s) /\ Unobserved)

LiveClose == LiveEvents /\ CloseFairness

\* C1: every call to broadcast returns: a request goroutine that is about to
\* send on Notifier, or is parked in that send, gets past it, whatever the
\* subscribers do.
C1_BroadcastReturns ==
    \A h \in Handlers : (hpc[h] \in {"broadcast", "blocked"}) ~> (hpc[h] = "respond")

\* C1 witness: a request goroutine is parked in its send on Notifier while a
\* registered subscriber is not receiving
C1_Witness ==
    \E h \in Handlers : \E s \in clients :
        hpc[h] = "blocked" /\ spc[s] \in {"running", "notified", "closing"}

(* ----------------------- the state store (Spec) ------------------------ *)

\* C5: at most one request is between mutex.Lock() and mutex.Unlock(), and
\* whenever no request is about to write an id the attendance map holds for
\* that id the value of the request that last acquired the mutex: one of the
\* submitted values, whole.
C5_LastLockerWins ==
    /\ \A h1, h2 \in Handlers :
            /\ hpc[h1] \in {"update_write", "update_unlock"}
            /\ hpc[h2] \in {"update_write", "update_unlock"}
            => h1 = h2
    /\ \A id \in DOMAIN lastLock :
            (\A h \in Handlers : ~(hpc[h] = "update_write" /\ hreq[h].id = id))
            => id \in DOMAIN devices /\ devices[id] = lastLock[id].v

\* C5 witness: two requests on one id with different values are both
\* complete and the map holds the value of the one that locked last
C5_Witness ==
    \E h1, h2 \in Handlers :
        /\ hpc[h1] = "done" /\ hpc[h2] = "done"
        /\ hresp[h1].status = 200 /\ hresp[h2].status = 200
        /\ hreq[h1].kind = "update" /\ hreq[h2].kind = "update"
        /\ hreq[h1].id = hreq[h2].id
        /\ hval[h1].parsed # hval[h2].parsed
        /\ lastLock[hreq[h1].id].seq = hseq[h1]
        /\ hseq[h1] < hseq[h2]
        /\ devices[hreq[h1].id] = hval[h1].parsed

\* C6: right after its write, while it still holds the mutex, a request reads
\* back from the map exactly what its parameters parse to; and an entry only
\* changes in the write step of a request on that id, so the value stays until
\* the next write to the id.
C6_ReadAfterWrite ==
    /\ [](\A h \in Handlers :
            /\ hpc[h] = "update_unlock" =>
                /\ hreq[h].id \in DOMAIN devices
                /\ devices[hreq[h].id] = ParseBool(hreq[h].value).v
                /\ hreq[h].value = "true" => devices[hreq[h].id] = TRUE
                /\ hreq[h].value = "0" => devices[hreq[h].id] = FALSE
            /\ hpc[h] = "gps_unlock" =>
                /\ hreq[h].id \in DOMAIN gpsLocations
                /\ gpsLocations[hreq[h].id] = [ID  |-> hreq[h].id,
                                               Lat |-> ParseFloat(hreq[h].lat).v,
                                               Lon |-> ParseFloat(hreq[h].lon).v]
                /\ hreq[h].lat = <<"1", ".", "5">> => gpsLocations[hreq[h].id].Lat = 1500000
                /\ hreq[h].lon = <<"-", "2">> => gpsLocations[hreq[h].id].Lon = 0 - 2000000)
    /\ [][/\ \A id \in DOMAIN devices :
                devices'[id] # devices[id] =>
                    \E h \in Handlers : /\ hpc[h] = "update_write"
                                        /\ hpc'[h] = "update_unlock"
                                        /\ hreq[h].id = id
          /\ \A id \in DOMAIN gpsLocations :
                gpsLocations'[id] # gpsLocations[id] =>
                    \E h \in Handlers : /\ hpc[h] = "gps_write"
                                        /\ hpc'[h] = "gps_unlock"
                                        /\ hreq[h].id = id]_vars

\* C6 witness: an /update and a /gps request, the latter with different lat
\* and lon, have both just written
C6_Witness ==
    \E h1, h2 \in Handlers :
        /\ hpc[h1] = "update_unlock"
        /\ hpc[h2] = "gps_unlock"
        /\ hval[h2].lat # hval[h2].lon

\* C7: a request answered 400 has returned and holds neither mutex, and the
\* step that answers 400 changes neither map and takes neither mutex.
C7_RejectedLeavesStore ==
    /\ [](\A h \in Handlers :
            hresp[h].status = 400 => hpc[h] = "done" /\ mutex # h /\ gpsMutex # h)
    /\ [][(\E h \in Handlers : hresp'[h].status = 400 /\ hresp'[h] # hresp[h])
            => UNCHANGED store]_vars

\* C7 witness: a /gps request was rejected for its lat while both maps hold
\* an entry
C7_Witness ==
    \E h \in Handlers :
        /\ hresp[h] = HttpError("Invalid lat param")
        /\ devices # EmptyMap
        /\ gpsLocations # EmptyMap

\* C8: a request with an empty id is answered "Missing id param", whatever
\* its other parameters are.
C8_EmptyIdMissingField ==
    \A h \in Handlers :
        hpc[h] # "idle" /\ hreq[h].id = "" =>
            hpc[h] = "done" /\ hresp[h] = HttpError("Missing id param")

\* C8 witness: an /update with an empty id and an unparseable value and a /gps
\* with an empty id and an unparseable lat were both answered
C8_Witness ==
    \E h1, h2 \in Handlers :
        /\ hreq[h1].kind = "update" /\ hreq[h1].id = "" /\ hreq[h1].value = "yes"
        /\ hreq[h2].kind = "gps" /\ hreq[h2].id = "" /\ hreq[h2].lat = <<"a", "b", "c">>
        /\ hresp[h1].status = 400 /\ hresp[h2].status = 400

\* events of the request h serves that Notifier accepted
PubOf(h) == {i \in 1..Len(published) : published[i].seq = hseq[h]}

\* C9: a request that passed the checks writes the store holding the mutex,
\* releases it, publishes, and only then answers: nothing is published and
\* nothing answered up to the send on Notifier; once broadcast returned
\* exactly one event of the request's type is published, the map holds its id
\* and no mutex is held; and no request ever has two events.
C9_OneEventInOrder ==
    /\ \A h \in Handlers :
        /\ hpc[h] \in {"update_lock", "update_write", "update_unlock", "gps_lock",
                       "gps_write", "gps_unlock", "broadcast", "blocked"} =>
                PubOf(h) = {} /\ hresp[h] = NoResp
        /\ hpc[h] \in {"update_write", "update_unlock"} => mutex = h
        /\ hpc[h] \in {"gps_write", "gps_unlock"} => gpsMutex = h
        /\ hpc[h] \in {"broadcast", "blocked", "respond"}
           \/ (hpc[h] = "done" /\ hresp[h].status = 200) =>
                /\ mutex # h /\ gpsMutex # h
                /\ hreq[h].kind = "update" => hreq[h].id \in DOMAIN devices
                /\ hreq[h].kind = "gps" => hreq[h].id \in DOMAIN gpsLocations
        /\ hpc[h] = "respond" => hresp[h] = NoResp
        /\ hpc[h] = "respond" \/ (hpc[h] = "done" /\ hresp[h].status = 200) =>
                /\ Cardinality(PubOf(h)) = 1
                /\ \A i \in PubOf(h) : published[i].type = hreq[h].kind
    /\ \A i, j \in 1..Len(published) : published[i].seq = published[j].seq => i = j

\* C9 witness: an /update and a /gps request were both answered 200
C9_Witness ==
    \E h1, h2 \in Handlers :
        /\ hpc[h1] = "done" /\ hresp[h1].status = 200 /\ hreq[h1].kind = "update"
        /\ hpc[h2] = "done" /\ hresp[h2].status = 200 /\ hreq[h2].kind = "gps"

(* ------------------- delivery to subscribers (SpecEvents) -------------- *)

\* copies of the event of request seq that subscriber s received
Copies(seq, s) ==
    Cardinality({i \in 1..Len(received[s]) : received[s][i].seq = seq})

\* events the loop has taken from Notifier
Taken == Len(published) - Len(Notifier)

\* the fan-out of the i-th published event is over
FannedOut(i) == i <= Taken /\ ~(bpc = "fanout" /\ bevent = published[i])

\* s's registration was processed before the i-th broadcast call began, and
\* s has not been deregistered
RegisteredBefore(s, i) == s \in clients /\ regDone[s] < i

\* C2 as claimed: a subscriber registered before a publish call started, and
\* still registered, has exactly one copy of the event once its fan-out is over.
C2_ExactlyOne ==
    \A s \in Subscribers : \A i \in 1..Len(published) :
        FannedOut(i) /\ RegisteredBefore(s, i) => Copies(published[i].seq, s) = 1

\* C2 amended: such a subscriber has exactly one copy of the event if the loop
\* found it waiting in its receive, and none if the loop found it not ready
\* and dropped its copy; it is offered the event exactly once either way.
C2_OneOrDropped ==
    \A s \in Subscribers : \A i \in 1..Len(published) :
        FannedOut(i) /\ RegisteredBefore(s, i) =>
            \/ Copies(published[i].seq, s) = 1 /\ published[i].seq \notin dropped[s]
            \/ Copies(published[i].seq, s) = 0 /\ published[i].seq \in dropped[s]

\* C2 witness: a subscriber registered before the publish call received its copy
C2_Witness ==
    \E s \in Subscribers : \E i \in 1..Len(published) :
        FannedOut(i) /\ RegisteredBefore(s, i) /\ Copies(published[i].seq, s) = 1

\* C3 as claimed: no event whose broadcast call returned before a subscriber
\* began its send on newClients is delivered to that subscriber.
C3_NoEarlierEvent ==
    \A s \in Subscribers : \A i \in 1..regStart[s] :
        Copies(published[i].seq, s) = 0

\* C3 amended: of the events whose broadcast call returned before a subscriber
\* began its send on newClients, only the last one, which Notifier may still
\* buffer, can be delivered to that subscriber; no older one ever is.
C3_OnlyTheBufferedEvent ==
    \A s \in Subscribers : \A i \in 1..(regStart[s] - 1) :
        Copies(published[i].seq, s) = 0

\* C3 witness: a subscriber that began to register after two broadcast calls
\* had returned is registered and has received an event
C3_Witness ==
    \E s \in Subscribers : regStart[s] >= 2 /\ s \in clients /\ received[s] # <<>>

\* C4: a subscriber has at most one copy of an event, and none of an event the
\* loop dropped for it; and in every step of a fan-out each registered
\* subscriber is still to be visited, or has its copy, or was found not ready:
\* a drop costs the other subscribers nothing.
C4_AtMostOnce ==
    /\ [](\A s \in Subscribers : \A i \in 1..Len(published) :
            /\ Copies(published[i].seq, s) <= 1
            /\ published[i].seq \in dropped[s] => Copies(published[i].seq, s) = 0)
    /\ [][bpc = "fanout" =>
            \A s \in clients :
                \/ s \in btodo'
                \/ Copies(bevent.seq, s)' = 1
                \/ bevent.seq \in dropped'[s]]_vars

\* C4 witness: the loop dropped an event for one subscriber and the other
\* subscriber received it
C4_Witness ==
    \E s1, s2 \in Subscribers : \E i \in 1..Len(published) :
        /\ published[i].seq \in dropped[s1]
        /\ Copies(published[i].seq, s2) = 1

\* C10: a deregistered subscriber is in neither the listener set nor the
\* running fan-out and receives nothing more; for a subscriber that left its
\* receive loop and is not yet deregistered the loop drops the event; and the
\* loop can always take its next fan-out step, so it never waits for a receiver.
C10_NothingAfterClose ==
    /\ [](\A s \in Subscribers : spc[s] = "done" => s \notin clients /\ s \notin btodo)
    /\ [](bpc = "fanout" => btodo # {} /\ ENABLED (\E c \in Subscribers : listenSend(c)))
    /\ [][\A s \in Subscribers :
            /\ spc[s] = "done" => received'[s] = received[s]
            /\ spc[s] \in {"notified", "closing"} /\ s \in btodo /\ s \notin btodo' =>
                    received'[s] = received[s] /\ bevent.seq \in dropped'[s]]_vars

\* C10 witness: an event was dropped for a subscriber that had left its receive
\* loop, and the subscriber is now deregistered
C10_Witness ==
    \E s \in Subscribers :
        spc[s] = "done" /\ dropped[s] # {} /\ received[s] # <<>> /\ bpc = "fanout"

(* --------------------- registration (LiveEvents) ----------------------- *)

\* C11: registration never fails: a subscriber blocked in its send on
\* newClients is eventually past the send with its channel in the listener
\* set, whatever the publishers and the other subscribers do meanwhile.
C11_RegistrationCompletes ==
    \A s \in Subscribers :
        (spc[s] = "registering") ~> (spc[s] # "registering" /\ s \in clients)

\* C11 witness: a subscriber is registered and in its loop while a request
\* goroutine is parked in its send on Notifier and the other subscriber is
\* blocked deregistering
C11_Witness ==
    \E s, t \in Subscribers : \E h \in Handlers :
        /\ s \in clients /\ spc[s] \in {"running", "select"}
        /\ hpc[h] = "blocked"
        /\ spc[t] = "closing"

(* ------------------- the two maps and their locks (Spec) --------------- *)

\* C12: the two maps are independent: only an /update request ever holds the
\* attendance mutex and only a /gps request the GPS mutex; a request waiting
\* for one mutex can take it as soon as that mutex is free, whoever holds the
\* other; and no step of an /update request, accepted or rejected, changes
\* the GPS map or the GPS mutex, nor a step of a /gps request the attendance
\* map or the attendance mutex.
C12_MapsIndependent ==
    /\ [](\A h \in Handlers :
            /\ mutex = h => hreq[h].kind = "update"
            /\ gpsMutex = h => hreq[h].kind = "gps"
            /\ hpc[h] = "update_lock" /\ mutex = None => ENABLED updateLock(h)
            /\ hpc[h] = "gps_lock" /\ gpsMutex = None => ENABLED gpsLock(h))
    /\ [][\A h \in Handlers :
            hpc'[h] # hpc[h] =>
                /\ "update" \in {hreq[h].kind, hreq'[h].kind} =>
                        UNCHANGED <<gpsLocations, gpsMutex>>
                /\ "gps" \in {hreq[h].kind, hreq'[h].kind} =>
                        UNCHANGED <<devices, mutex>>]_vars

\* C12 witness: an /update request holds the attendance mutex while a /gps
\* request holds the GPS mutex, and both maps have an entry
C12_Witness ==
    \E h1, h2 \in Handlers :
        /\ mutex = h1 /\ hpc[h1] = "update_write"
        /\ gpsMutex = h2 /\ hpc[h2] = "gps_unlock"
        /\ devices # EmptyMap

(* ----------------------- the listener set (SpecEvents) ----------------- *)

\* C13: the broker loop is the sole mutator of the listener set: broker.clients
\* is exactly the set of subscribers whose send on newClients the loop has
\* received and whose send on closingClients it has not; a subscriber still
\* blocked registering is not in it and one blocked deregistering still is;
\* and the set changes only in a step of the loop's select that receives the
\* head of newClients and adds it, or the head of closingClients and deletes it.
C13_LoopOwnsClients ==
    /\ [](/\ clients = {s \in Subscribers :
                            spc[s] \in {"running", "select", "notified", "closing"}}
          /\ \A i \in 1..Len(newClients) :
                newClients[i] \notin clients /\ spc[newClients[i]] = "registering"
          /\ \A i \in 1..Len(closingClients) :
                closingClients[i] \in clients /\ spc[closingClients[i]] = "closing")
    /\ [][clients' # clients =>
            /\ bpc = "select" /\ bpc' = "select"
            /\ \/ /\ newClients # <<>>
                  /\ newClients' = Tail(newClients)
                  /\ clients' = clients \cup {Head(newClients)}
               \/ /\ closingClients # <<>>
                  /\ closingClients' = Tail(closingClients)
                  /\ clients' = clients \ {Head(closingClients)}]_vars

\* C13 witness: one subscriber has been deregistered after receiving an event
\* and the other is registered, during a fan-out
C13_Witness ==
    \E s, t \in Subscribers :
        /\ clients = {s}
        /\ spc[t] = "done" /\ received[t] # <<>>
        /\ bpc = "fanout"

\* C14: each mutex is held for the single map write only: a request holds the
\* attendance (GPS) mutex exactly from its Lock() to its Unlock(), at most one
\* request at a time is there, the only thing a request does while holding a
\* mutex is its one write to that map, and no request holds a mutex while it
\* logs, sends on Notifier, waits in that send, or writes its response.
C14_LockOnlyAroundWrite ==
    /\ [](/\ \A h \in Handlers :
                /\ mutex = h <=> hpc[h] \in {"update_write", "update_unlock"}
                /\ gpsMutex = h <=> hpc[h] \in {"gps_write", "gps_unlock"}
          /\ Cardinality({h \in Handlers : hpc[h] \in {"update_write", "update_unlock"}}) <= 1
          /\ Cardinality({h \in Handlers : hpc[h] \in {"gps_write", "gps_unlock"}}) <= 1
          /\ \A i \in 1..Len(NotifierSendq) :
                mutex # NotifierSendq[i].h /\ gpsMutex # NotifierSendq[i].h)
    /\ [][\A h \in Handlers :
            /\ (mutex = h \/ gpsMutex = h) /\ hpc'[h] # hpc[h] =>
                    UNCHANGED <<Notifier, NotifierSendq, published, hresp>>
            /\ mutex = h /\ mutex' = h /\ hpc'[h] # hpc[h] =>
                    /\ hpc[h] = "update_write" /\ hpc'[h] = "update_unlock"
                    /\ devices' = MapSet(devices, hreq[h].id, hval[h].parsed)
            /\ gpsMutex = h /\ gpsMutex' = h /\ hpc'[h] # hpc[h] =>
                    /\ hpc[h] = "gps_write" /\ hpc'[h] = "gps_unlock"
                    /\ gpsLocations'[hreq[h].id].Lat = hval[h].lat
            /\ (Notifier' # Notifier \/ NotifierSendq' # NotifierSendq \/ hresp'[h] # hresp[h])
               /\ hpc'[h] # hpc[h] =>
                    mutex # h /\ gpsMutex # h]_vars

\* C14 witness: an /update request is parked in its send on Notifier while
\* another /update request is inside its critical section
C14_Witness ==
    \E h1, h2 \in Handlers :
        /\ hpc[h1] = "blocked" /\ hreq[h1].kind = "update"
        /\ hpc[h2] = "update_write" /\ mutex = h2

(* ------------------------ validation order (Spec) ---------------------- *)

\* C15: with a non-empty id, a /gps request is rejected exactly when lat or
\* lon does not parse, an absent one included; the answer is "Invalid lat
\* param" whenever lat does not parse and "Invalid lon param" only when lat
\* parses and lon does not; and an /update request with an empty value is
\* answered "Missing value param", an unparseable one "Invalid boolean value".
C15_ParseErrorsInOrder ==
    \A h \in Handlers :
        hpc[h] # "idle" /\ hreq[h].id # "" =>
            /\ hreq[h].kind = "gps" =>
                LET latErr == ParseFloat(hreq[h].lat).err
                    lonErr == ParseFloat(hreq[h].lon).err
                IN  /\ (hpc[h] = "done" /\ hresp[h].status = 400) <=> (latErr \/ lonErr)
                    /\ hreq[h].lat \in {<<>>, <<"a", "b", "c">>} =>
                            hresp[h] = HttpError("Invalid lat param")
                    /\ latErr <=> hresp[h] = HttpError("Invalid lat param")
                    /\ (~latErr /\ lonErr) <=> hresp[h] = HttpError("Invalid lon param")
                    /\ hreq[h].lat \in {<<"1", ".", "5">>, <<"-", "2">>} /\ hreq[h].lon = <<>> =>
                            hresp[h] = HttpError("Invalid lon param")
                    /\ hresp[h] # HttpError("Missing id param")
            /\ hreq[h].kind = "update" =>
                /\ hreq[h].value = "" <=> hresp[h] = HttpError("Missing value param")
                /\ hreq[h].value = "yes" <=> hresp[h] = HttpError("Invalid boolean value")
                /\ hreq[h].value \in {"true", "0"} => hresp[h].status # 400

\* C15 witness: a /gps request with an id, an absent lat and an unparseable
\* lon, and an /update request with an id and an empty value, were answered
C15_Witness ==
    \E h1, h2 \in Handlers :
        /\ hreq[h1].kind = "gps" /\ hreq[h1].id = "dev-1"
        /\ hreq[h1].lat = <<>> /\ hreq[h1].lon = <<"a", "b", "c">>
        /\ hresp[h1] = HttpError("Invalid lat param")
        /\ hreq[h2].kind = "update" /\ hreq[h2].id = "dev-2" /\ hreq[h2].value = ""
        /\ hresp[h2] = HttpError("Missing value param")

(* ---------------- notifications and the store (Spec) ------------------- *)

\* C16: notification order and store content can diverge.  The event of an
\* /update request describes the request's own value, whatever the map holds
\* when it is sent; it is accepted by Notifier in a step that holds no mutex
\* and leaves the map alone; and the map holds the value of the request that
\* locked last.  So the last event published for an id need not describe the
\* value the map ends with (the witness is such an execution).
C16_EventNotTiedToStore ==
    /\ [](\A h \in Handlers : \A i \in PubOf(h) :
            hreq[h].kind = "update" =>
                /\ published[i].message =
                        IF hreq[h].value = "true"
                            THEN <<"Attendance registered for", hreq[h].id>>
                            ELSE <<"Attendance unregistered for", hreq[h].id>>
                /\ hreq[h].id \in DOMAIN lastLock
                /\ (\A g \in Handlers : hpc[g] # "update_write")
                        => devices[hreq[h].id] = lastLock[hreq[h].id].v)
    /\ [][published' # published =>
            /\ devices' = devices
            /\ \A h \in Handlers :
                    hseq[h] = published'[Len(published')].seq => mutex # h]_vars

\* C16 witness: two /update requests on one id with different values were
\* both answered 200, the event published last is the one of the first
\* request, and the map holds the value of the second
C16_Witness ==
    \E h1, h2 \in Handlers :
        /\ hpc[h1] = "done" /\ hpc[h2] = "done"
        /\ hresp[h1].status = 200 /\ hresp[h2].status = 200
        /\ hreq[h1].kind = "update" /\ hreq[h2].kind = "update"
        /\ hreq[h1].id = hreq[h2].id
        /\ hval[h1].parsed # hval[h2].parsed
        /\ \A i \in PubOf(h1) : \A j \in PubOf(h2) : j < i
        /\ PubOf(h1) = {Len(published)}
        /\ published[Len(published)].message =
                <<"Attendance registered for", hreq[h1].id>>
        /\ devices[hreq[h1].id] = FALSE
        /\ devices[hreq[h1].id] = hval[h2].parsed

(* ---------------------- deregistration (LiveClose) --------------------- *)

\* C17: every subscriber whose connection ends is eventually removed from the
\* listener set: once its request context is done its handler reaches the
\* deferred send on closingClients, the loop receives it, the handler ends
\* and the channel is no longer in broker.clients.
C17_DisconnectedIsRemoved ==
    \A s \in Subscribers :
        /\ cancelled[s] ~> (spc[s] = "done" /\ s \notin clients)
        /\ (spc[s] = "closing") ~> (spc[s] = "done" /\ s \notin clients)

\* C17 witness: a subscriber whose connection ended has been removed, at a
\* time when a request goroutine is parked in its send on Notifier and the
\* other subscriber is registered and connected
C17_Witness ==
    \E s, t \in Subscribers : \E h \in Handlers :
        /\ cancelled[s] /\ spc[s] = "done" /\ s \notin clients
        /\ t \in clients /\ ~cancelled[t]
        /\ hpc[h] = "blocked"

(* ------------------- rejected requests (Spec) -------------------------- *)

\* C18: a rejected request publishes nothing: a request answered 400 has no
\* event accepted by Notifier and is not parked sending one, the step that
\* answers 400 leaves Notifier and its senders alone, and every published
\* event names a non-empty id that the map of its type holds, so it comes
\* from a request that wrote the store.
C18_RejectedPublishesNothing ==
    /\ [](/\ \A h \in Handlers :
                hresp[h].status = 400 =>
                    /\ PubOf(h) = {}
                    /\ \A i \in 1..Len(NotifierSendq) : NotifierSendq[i].h # h
          /\ \A i \in 1..Len(published) :
                /\ published[i].message[2] # ""
                /\ published[i].type = "update" => published[i].message[2] \in DOMAIN devices
                /\ published[i].type = "gps" => published[i].message[2] \in DOMAIN gpsLocations
          /\ \A i \in 1..Len(Notifier) :
                \E j \in 1..Len(published) : published[j] = Notifier[i])
    /\ [][(\E h \in Handlers : hresp'[h].status = 400 /\ hresp'[h] # hresp[h])
            => UNCHANGED <<Notifier, NotifierSendq, published>>]_vars

\* C18 witness: of three requests the second was answered 400 and the two
\* others have their events published
C18_Witness ==
    \E h \in Handlers :
        /\ hresp[h].status = 400 /\ hseq[h] = 2
        /\ nreq = 3
        /\ Len(published) = 2

(* ---------------------- delivery order (SpecEvents) -------------------- *)

\* position in the publish order of an event Notifier accepted
PubIndex(e) == CHOOSE i \in 1..Len(published) : published[i] = e

\* C19: per-subscriber delivery preserves the publish order: what a
\* subscriber has received is a subsequence of the events in the order
\* Notifier accepted them: each received event was published, and a later
\* received event was published strictly later, so none is reordered or
\* duplicated; and an event is only ever received while the loop fans it out,
\* after every earlier published event was taken from Notifier.
C19_ReceivedInPublishOrder ==
    /\ [](\A s \in Subscribers :
            /\ \A k \in 1..Len(received[s]) :
                    \E i \in 1..Len(published) : published[i] = received[s][k]
            /\ \A k, l \in 1..Len(received[s]) :
                    k < l => PubIndex(received[s][k]) < PubIndex(received[s][l]))
    /\ [][\A s \in Subscribers :
            received'[s] # received[s] =>
                /\ received'[s] = Append(received[s], bevent)
                /\ bpc = "fanout"
                /\ PubIndex(bevent) = Taken]_vars

\* C19 witness: a subscriber received the first and the third published
\* event, the second having been dropped for it
C19_Witness ==
    \E s \in Subscribers :
        /\ Len(published) = 3
        /\ received[s] = <<published[1], published[3]>>
        /\ published[2].seq \in dropped[s]

====
